---- MODULE Spec2Model ----
(***************************************************************************)
(* A model of the content-addressed OCR result cache of flexbone:          *)
(* services/cache_service.py (class LRUCache, generate_cache_key),         *)
(* the configuration it reads (config.py) and the request handlers and     *)
(* the sweep task that use it (main.py).                                   *)
(*                                                                         *)
(* The OrderedDict _cache is a sequence of entries, front = least recently *)
(* used, back = most recently used.  time.time() is the variable now; an   *)
(* operation that reads the clock more than once (set reads it twice, the  *)
(* scans of size and cleanup_expired once per entry) may see it advance    *)
(* between its readings.                                                   *)
(***************************************************************************)
EXTENDS Integers, Sequences, FiniteSets, TLC

(* ------------------------------ bounds --------------------------------- *)

\* the clock runs from 0 to MaxTime
MaxTime == 2
\* the largest ttl a caller passes to set (the smallest is -1)
MaxTTL == 1
\* the most the clock advances between two readings of one operation
MaxDrift == 1
\* the largest configured MAX_CACHE_SIZE
MaxCapacity == 2
\* the get and set calls of a run of SpecTwin
MaxTwinCalls == 4
\* the requests of a run of SpecReq
NReq == 2
\* every statistics counter is capped at MaxCount by the guards
MaxCount == 1
\* the threads of a run of SpecLock, and the calls each of them makes
NThreads == 2
MaxThreadCalls == 2
\* the sets of a run of SpecLife, and of SpecStats
MaxLifeSets == 2
\* the gets of a run of SpecStats
MaxGets == 3

Keys == {"a", "b", "c"}
Values == {"X", "Y"}
TTLs == (0 - 1)..MaxTTL
\* the ttl argument of set: <<>> when left out (ttl is None), <<t>> otherwise
TTLArgs == {<<>>} \cup {<<t>> : t \in TTLs}
\* Python's None, as a result
None == "None"

VARIABLES
    cache,      \* LRUCache._cache: the entries in recency order (front = LRU)
    stats,      \* LRUCache._stats
    now,        \* the value time.time() returns
    config,     \* config.CACHE_ENABLED, MAX_CACHE_SIZE, CACHE_TTL_SECONDS
    last,       \* history: the last completed call, its arguments and result
    recency,    \* history: the stored keys, least recently touched first
    scn,        \* history: how far the run has followed the spec's scenario
    tally,      \* history: what the calls since the last reset_stats did
    twin,       \* a second store that gets the same get and set calls
    reqs,       \* the requests to /extract-text: position and local variables
    running,    \* the request the event loop is running, 0 when it is free
    task,       \* the asyncio task of cleanup_cache_periodically
    life,       \* lifespan: where the application is between startup and exit
    report,     \* what the last get_stats call returned
    thr,        \* the threads that call LRUCache: position and local variables
    lock,       \* LRUCache._lock: the thread that holds it, 0 when it is free
    lin         \* history: the store after the calls that have completed

\* the variables of LRUCache and its history
core == <<cache, stats, now, config, last, recency, scn, tally>>
\* what the calls of LRUCache leave alone
env == <<twin, reqs, running, task, life, report, thr, lock, lin>>
\* what the handlers and the twin store leave alone
aside == <<task, life, report, thr, lock, lin>>
vars == <<cache, stats, now, config, last, recency, scn, tally, twin, reqs,
          running, task, life, report, thr, lock, lin>>

(* ------------------------- OrderedDict helpers ------------------------- *)

Min(x, y) == IF x <= y THEN x ELSE y

\* key in self._cache
Has(c, key) == \E i \in 1..Len(c) : c[i].key = key

\* the keys in iteration order
KeysOf(c) == [i \in 1..Len(c) |-> c[i].key]

KeySet(c) == {c[i].key : i \in 1..Len(c)}

\* self._cache[key]
Lookup(c, key) == c[CHOOSE i \in 1..Len(c) : c[i].key = key]

\* the subsequence of the entries that satisfy Keep, order kept
RECURSIVE SelectEntries(_, _)
SelectEntries(c, keep) ==
    IF c = <<>> THEN <<>>
    ELSE IF Head(c).key \in keep
         THEN <<Head(c)>> \o SelectEntries(Tail(c), keep)
         ELSE SelectEntries(Tail(c), keep)

\* del self._cache[key]
DelKey(c, key) == SelectEntries(c, KeySet(c) \ {key})

\* self._cache.move_to_end(key)
move_to_end(c, key) == DelKey(c, key) \o <<Lookup(c, key)>>

\* self._cache[key] = entry: an existing key keeps its position, a new one
\* is appended
SetItem(c, key, entry) ==
    IF Has(c, key)
    THEN [i \in 1..Len(c) |-> IF c[i].key = key THEN entry ELSE c[i]]
    ELSE Append(c, entry)

(* ------------------------------ LRUCache ------------------------------- *)

\* __init__: the counters
InitStats == [hits |-> 0, misses |-> 0, evictions |-> 0, sets |-> 0]

\* mutant: an entry lives one second past its expiry
_is_expired_late(entry, t) == t > entry.expires_at + 1

\* mutant: an entry is expired from its expiry time on (>= for >)
_is_expired_at(entry, t) == t >= entry.expires_at

\* _is_expired, with t the reading of time.time()
_is_expired(entry, t) == t > entry.expires_at

\* mutant: the eviction is not counted
_evict_lru_uncounted(c, st) ==
    [cache |-> IF c # <<>> THEN Tail(c) ELSE c, stats |-> st]

\* mutant: popitem() without last=False pops the most recently used entry
_evict_mru(c, st) ==
    IF c # <<>>
    THEN [cache |-> SubSeq(c, 1, Len(c) - 1),
          stats |-> [st EXCEPT !.evictions = @ + 1]]
    ELSE [cache |-> c, stats |-> st]

\* _evict_lru: popitem(last=False) and the eviction counter
_evict_lru(c, st) ==
    IF c # <<>>
    THEN [cache |-> Tail(c), stats |-> [st EXCEPT !.evictions = @ + 1]]
    ELSE [cache |-> c, stats |-> st]

\* mutant: a hit does not move the entry to the end
get_locked_no_touch(c, st, key, t) ==
    IF Has(c, key)
    THEN LET entry == Lookup(c, key) IN
         IF t > entry.expires_at
         THEN [cache |-> DelKey(c, key),
               stats |-> [st EXCEPT !.misses = @ + 1],
               result |-> None]
         ELSE [cache |-> c,
               stats |-> [st EXCEPT !.hits = @ + 1],
               result |-> entry.value]
    ELSE [cache |-> c, stats |-> [st EXCEPT !.misses = @ + 1], result |-> None]

\* mutant: an expired entry is reported as a miss and left in the store
get_locked_keep_expired(c, st, key, t) ==
    IF Has(c, key)
    THEN LET entry == Lookup(c, key) IN
         IF t > entry.expires_at
         THEN [cache |-> c,
               stats |-> [st EXCEPT !.misses = @ + 1],
               result |-> None]
         ELSE [cache |-> move_to_end(c, key),
               stats |-> [st EXCEPT !.hits = @ + 1],
               result |-> entry.value]
    ELSE [cache |-> c, stats |-> [st EXCEPT !.misses = @ + 1], result |-> None]

\* mutant: a get that finds its entry expired is not counted as a miss
get_locked_uncounted_expiry(c, st, key, t) ==
    IF Has(c, key)
    THEN LET entry == Lookup(c, key) IN
         IF t > entry.expires_at
         THEN [cache |-> DelKey(c, key), stats |-> st, result |-> None]
         ELSE [cache |-> move_to_end(c, key),
               stats |-> [st EXCEPT !.hits = @ + 1],
               result |-> entry.value]
    ELSE [cache |-> c, stats |-> [st EXCEPT !.misses = @ + 1], result |-> None]

\* get, the body under the lock; t is the reading of the clock
get_locked(c, st, key, t) ==
    IF Has(c, key)
    THEN LET entry == Lookup(c, key) IN
         IF _is_expired(entry, t)
         THEN [cache |-> DelKey(c, key),
               stats |-> [st EXCEPT !.misses = @ + 1],
               result |-> None]
         ELSE [cache |-> move_to_end(c, key),
               stats |-> [st EXCEPT !.hits = @ + 1],
               result |-> entry.value]
    ELSE [cache |-> c, stats |-> [st EXCEPT !.misses = @ + 1], result |-> None]

\* mutant: only the insertion of a new key is counted as a set
set_locked_counting_inserts(c, st, cap, key, value, ttl, t1, t2) ==
    LET ev == IF ~Has(c, key) /\ Len(c) >= cap /\ c # <<>>
              THEN [cache |-> Tail(c),
                    stats |-> [st EXCEPT !.evictions = @ + 1]]
              ELSE [cache |-> c, stats |-> st]
        entry == [key |-> key, value |-> value,
                  expires_at |-> t1 + ttl, created_at |-> t2]
    IN [cache |-> SelectEntries(ev.cache, KeySet(ev.cache) \ {key})
                    \o <<entry>>,
        stats |-> IF Has(c, key) THEN ev.stats
                  ELSE [ev.stats EXCEPT !.sets = @ + 1]]

\* mutant: the store evicts only when it is over capacity (> for >=)
set_locked_gt(c, st, cap, key, value, ttl, t1, t2) ==
    LET ev == IF ~Has(c, key) /\ Len(c) > cap
              THEN [cache |-> Tail(c),
                    stats |-> [st EXCEPT !.evictions = @ + 1]]
              ELSE [cache |-> c, stats |-> st]
        entry == [key |-> key, value |-> value,
                  expires_at |-> t1 + ttl, created_at |-> t2]
    IN [cache |-> move_to_end(SetItem(ev.cache, key, entry), key),
        stats |-> [ev.stats EXCEPT !.sets = @ + 1]]

\* mutant: a full store evicts on every set, of a present key too
set_locked_evict_full(c, st, cap, key, value, ttl, t1, t2) ==
    LET ev == IF Len(c) >= cap /\ c # <<>>
              THEN [cache |-> Tail(c),
                    stats |-> [st EXCEPT !.evictions = @ + 1]]
              ELSE [cache |-> c, stats |-> st]
        entry == [key |-> key, value |-> value,
                  expires_at |-> t1 + ttl, created_at |-> t2]
    IN [cache |-> SelectEntries(SetItem(ev.cache, key, entry),
                                KeySet(ev.cache) \ {key}) \o <<entry>>,
        stats |-> [ev.stats EXCEPT !.sets = @ + 1]]

\* set, the body under the lock; t1 and t2 are the two readings of the
\* clock, in the order the dict display evaluates them
set_locked(c, st, cap, key, value, ttl, t1, t2) ==
    LET ev == IF ~Has(c, key) /\ Len(c) >= cap
              THEN _evict_lru(c, st)
              ELSE [cache |-> c, stats |-> st]
        entry == [key |-> key, value |-> value,
                  expires_at |-> t1 + ttl, created_at |-> t2]
    IN [cache |-> move_to_end(SetItem(ev.cache, key, entry), key),
        stats |-> [ev.stats EXCEPT !.sets = @ + 1]]

\* the readings of the clock a scan of n entries can make, starting at t:
\* one per entry, never decreasing
ScanReads(n, t) ==
    {r \in [1..n -> t..Min(t + MaxDrift, MaxTime)] :
        \A i \in 1..n : \A j \in i..n : r[i] <= r[j]}

\* mutant: the scan compares the clock with created_at
expired_keys_by_created(c, reads) ==
    {c[i].key : i \in {j \in 1..Len(c) : reads[j] > c[j].created_at}}

\* expired_keys = [k for k, v in self._cache.items() if self._is_expired(v)]
expired_keys(c, reads) ==
    {c[i].key : i \in {j \in 1..Len(c) : _is_expired(c[j], reads[j])}}

\* for key in expired_keys: del self._cache[key]
purge(c, reads) == SelectEntries(c, KeySet(c) \ expired_keys(c, reads))

\* the clock after a scan
AfterScan(reads, t) == IF Len(reads) = 0 THEN t ELSE reads[Len(reads)]

(* ------------------------------ history -------------------------------- *)

\* a sequence of keys without the keys outside keep, order kept
RECURSIVE SelectKeys(_, _)
SelectKeys(ks, keep) ==
    IF ks = <<>> THEN <<>>
    ELSE IF Head(ks) \in keep
         THEN <<Head(ks)>> \o SelectKeys(Tail(ks), keep)
         ELSE SelectKeys(Tail(ks), keep)

\* The stored keys in the order of their last touch.  A touch is a get that
\* returns a value or a set that writes; a key leaves when the store drops it.
Touched(rec, touch, key, stored) ==
    SelectKeys(IF touch
               THEN SelectKeys(rec, stored \ {key}) \o <<key>>
               ELSE rec,
               stored)

\* The scenario of the spec, section 8: capacity 2 and nothing expiring;
\* set(a), set(b), get(a), set(c), get(b) on an empty store.  scn counts the
\* calls of the scenario made so far; reset_stats in between is ignored and
\* any other call starts over.
ScenarioStep(s, op, key, c, t, t2, ttl) ==
    LET fresh == t2 <= t + ttl IN
    CASE op = "reset_stats" -> s
      [] op = "set" /\ key = "a" /\ c = <<>> /\ fresh
         /\ config.CACHE_ENABLED /\ config.MAX_CACHE_SIZE = 2 -> 1
      [] s = 1 /\ op = "set" /\ key = "b" /\ fresh
         /\ ~_is_expired(c[1], t2) -> 2
      [] s = 2 /\ op = "get" /\ key = "a" /\ ~_is_expired(c[1], t) -> 3
      [] s = 3 /\ op = "set" /\ key = "c" -> 4
      [] s = 4 /\ op = "get" /\ key = "b" -> 5
      [] OTHER -> 0

NoCall == [op |-> "init", key |-> None, result |-> None, count |-> 0,
           had |-> FALSE, len |-> 0, value |-> None, ttl |-> 0]

\* The calls since the last reset_stats, counted by what they returned and
\* removed: gets that returned a value, gets that returned None, sets that
\* wrote, and entries a set removed (the store lost an entry other than by
\* overwriting).  Calls made with caching disabled do nothing and are not
\* counted.
NoTally == [hit |-> 0, missed |-> 0, written |-> 0, evicted |-> 0]

Tallied(t, op, key, result) ==
    CASE op = "reset_stats" -> NoTally
      [] op = "get" /\ config.CACHE_ENABLED ->
           IF result # None THEN [t EXCEPT !.hit = @ + 1]
                            ELSE [t EXCEPT !.missed = @ + 1]
      [] op = "set" /\ config.CACHE_ENABLED ->
           [t EXCEPT !.written = @ + 1,
                     !.evicted = @ + Len(cache)
                                   + (IF Has(cache, key) THEN 0 ELSE 1)
                                   - Len(cache')]
      [] OTHER -> t

\* what a completed call leaves in the history variables
Done(op, key, result, count, value, ttl) ==
    /\ last' = [op |-> op, key |-> key, result |-> result, count |-> count,
                had |-> Has(cache, key),
                len |-> IF op \in {"set", "size"} THEN Len(cache) ELSE 0,
                value |-> value, ttl |-> ttl]
    /\ recency' = Touched(recency,
                          \/ op = "get" /\ result # None
                          \/ op = "set" /\ config.CACHE_ENABLED,
                          key, KeySet(cache'))
    /\ scn' = ScenarioStep(scn, op, key, cache, now, now', ttl)
    /\ tally' = Tallied(tally, op, key, result)

(* ------------------------------- actions ------------------------------- *)

get(key) ==
    IF ~config.CACHE_ENABLED
    THEN /\ UNCHANGED <<cache, stats, now, config>>
         /\ Done("get", key, None, 0, None, 0)
    ELSE /\ LET r == get_locked(cache, stats, key, now) IN
              /\ cache' = r.cache
              /\ stats' = r.stats
              /\ UNCHANGED <<now, config>>
              /\ Done("get", key, r.result, 0, None, 0)

\* mutant: set does not look at CACHE_ENABLED
set_ignoring_flag(key, value, ttl, d) ==
    LET t == IF ttl = <<>> THEN config.CACHE_TTL_SECONDS ELSE ttl[1]
        r == set_locked(cache, stats, config.MAX_CACHE_SIZE,
                        key, value, t, now, now + d)
    IN /\ cache' = r.cache
       /\ stats' = r.stats
       /\ now' = now + d
       /\ UNCHANGED config
       /\ Done("set", key, None, 0, value, t)

\* ttl is <<>> when the caller leaves it out; d is how far the clock
\* advances between the two readings of time.time()
set(key, value, ttl, d) ==
    IF ~config.CACHE_ENABLED
    THEN /\ UNCHANGED <<cache, stats, now, config>>
         /\ Done("set", key, None, 0, None, 0)
    ELSE LET t == IF ttl = <<>> THEN config.CACHE_TTL_SECONDS ELSE ttl[1]
             r == set_locked(cache, stats, config.MAX_CACHE_SIZE,
                             key, value, t, now, now + d)
         IN /\ cache' = r.cache
            /\ stats' = r.stats
            /\ now' = now + d
            /\ UNCHANGED config
            /\ Done("set", key, None, 0, value, t)

\* mutant: a delete of an absent key is counted as a miss
delete_counting_miss(key) ==
    /\ cache' = IF Has(cache, key) THEN DelKey(cache, key) ELSE cache
    /\ stats' = IF Has(cache, key) THEN stats
                ELSE [stats EXCEPT !.misses = @ + 1]
    /\ UNCHANGED <<now, config>>
    /\ Done("delete", key, None, 0, None, 0)

delete(key) ==
    /\ cache' = IF Has(cache, key) THEN DelKey(cache, key) ELSE cache
    /\ UNCHANGED <<stats, now, config>>
    /\ Done("delete", key, None, 0, None, 0)

clear ==
    /\ cache' = <<>>
    /\ UNCHANGED <<stats, now, config>>
    /\ Done("clear", None, None, 0, None, 0)

\* mutant: size returns len(self._cache) as it was before the purge
size_counting_all(reads) ==
    /\ cache' = purge(cache, reads)
    /\ now' = AfterScan(reads, now)
    /\ UNCHANGED <<stats, config>>
    /\ Done("size", None, None, Len(cache), None, 0)

\* reads: the reading of the clock for each entry of the scan
size(reads) ==
    /\ cache' = purge(cache, reads)
    /\ now' = AfterScan(reads, now)
    /\ UNCHANGED <<stats, config>>
    /\ Done("size", None, None, Len(purge(cache, reads)), None, 0)

cleanup_expired(reads) ==
    /\ cache' = purge(cache, reads)
    /\ now' = AfterScan(reads, now)
    /\ UNCHANGED <<stats, config>>
    /\ Done("cleanup_expired", None, None,
            Cardinality(expired_keys(cache, reads)), None, 0)

\* mutant: the reset leaves the hit counter
reset_stats_keeping_hits ==
    /\ stats' = [InitStats EXCEPT !.hits = stats.hits]
    /\ UNCHANGED <<cache, now, config>>
    /\ Done("reset_stats", None, None, 0, None, 0)

reset_stats ==
    /\ stats' = InitStats
    /\ UNCHANGED <<cache, now, config>>
    /\ Done("reset_stats", None, None, 0, None, 0)

\* time passes between calls
Tick ==
    /\ now' = now + 1
    /\ UNCHANGED <<cache, stats, config>>
    /\ Done("tick", None, None, 0, None, 0)

(* ---------------------------- specification ---------------------------- *)

\* the configuration is read once, when config.py is imported
Configs ==
    [CACHE_ENABLED : BOOLEAN,
     MAX_CACHE_SIZE : 0..MaxCapacity,
     CACHE_TTL_SECONDS : {MaxTTL}]

NoTwin == [cache |-> <<>>, stats |-> InitStats, result |-> None]

ReqIds == 1..NReq
NoUpload == [filename |-> <<>>, content_type |-> "", bytes |-> ""]
\* endpoint: "single" for /extract-text, "batch" for an item of /batch-extract
NoRequest == [pc |-> "idle", endpoint |-> "single", upload |-> NoUpload,
              file_content |-> None, cache_key |-> None, text |-> None,
              cached |-> FALSE, calls |-> 0]

\* no get_stats call yet
NoReport == [size |-> 0, max_size |-> 0, hits |-> 0, misses |-> 0,
             hit_rate |-> 0, evictions |-> 0, total_sets |-> 0,
             oldest_entry_age_seconds |-> <<>>, ttl_seconds |-> 0]

\* the threads of SpecLock
Threads == 1..NThreads
\* pc: "idle", "lock" (waiting for the lock) or the line of
\* cache_service.py the thread is at; reads: the readings of the clock its
\* call has made; todo: the expired_keys still to delete; entry: the local
\* variable of get; expect: history, what the call returns when run alone
\* what a method returns: a value or None from get, a number from size and
\* cleanup_expired (count), None from the others
Result(value, count) == [value |-> value, count |-> count]
NoEntry == [key |-> None, value |-> None, expires_at |-> 0, created_at |-> 0]
NoThread == [pc |-> "idle", op |-> "none", key |-> None, value |-> None,
             ttl |-> 0, reads |-> <<>>, todo |-> <<>>, entry |-> NoEntry,
             result |-> Result(None, 0), expect |-> Result(None, 0),
             calls |-> 0]

Init ==
    /\ cache = <<>>
    /\ stats = InitStats
    /\ now = 0
    /\ config \in Configs
    /\ last = NoCall
    /\ recency = <<>>
    /\ scn = 0
    /\ tally = NoTally
    /\ twin = NoTwin
    /\ reqs = [r \in ReqIds |-> NoRequest]
    /\ running = 0
    /\ task = "none"
    /\ life = "import"
    /\ report = NoReport
    /\ thr = [t \in Threads |-> NoThread]
    /\ lock = 0
    /\ lin = [cache |-> <<>>, stats |-> InitStats]

\* the bounds of the model: the counters and the clock stay in range
InBounds ==
    /\ now' <= MaxTime
    /\ \A f \in DOMAIN stats' : stats'[f] <= MaxCount

Next ==
    \/ \E key \in Keys : get(key) /\ InBounds /\ UNCHANGED env
    \/ \E key \in Keys, value \in Values, ttl \in TTLArgs, d \in 0..MaxDrift :
          /\ config.CACHE_ENABLED => stats.sets < MaxCount /\ now + d <= MaxTime
          /\ set(key, value, ttl, d)
          /\ UNCHANGED env
    \/ \E key \in Keys : delete(key) /\ UNCHANGED env
    \/ clear /\ UNCHANGED env
    \/ \E reads \in ScanReads(Len(cache), now) : size(reads) /\ UNCHANGED env
    \/ \E reads \in ScanReads(Len(cache), now) :
          cleanup_expired(reads) /\ UNCHANGED env
    \/ reset_stats /\ UNCHANGED env
    \/ now < MaxTime /\ Tick /\ UNCHANGED env

Spec == Init /\ [][Next]_vars

(* ------------------- the same calls with and without sweeps ------------- *)

\* SpecTwin: cache gets a sequence of get and set calls with cleanup_expired
\* and size calls in between; twin.cache gets the same get and set calls,
\* with the same readings of the clock, and no cleanup_expired or size.

TwinCalls == twin.stats.hits + twin.stats.misses + twin.stats.sets

twin_get(key) ==
    /\ TwinCalls < MaxTwinCalls
    /\ get(key)
    /\ UNCHANGED <<reqs, running, aside>>
    /\ twin' = IF config.CACHE_ENABLED
               THEN get_locked(twin.cache, twin.stats, key, now)
               ELSE [twin EXCEPT !.result = None]

twin_set(key, value, ttl, d) ==
    /\ TwinCalls < MaxTwinCalls
    /\ now + d <= MaxTime
    /\ set(key, value, ttl, d)
    /\ UNCHANGED <<reqs, running, aside>>
    /\ twin' = IF config.CACHE_ENABLED
               THEN LET t == IF ttl = <<>> THEN config.CACHE_TTL_SECONDS
                                           ELSE ttl[1]
                        r == set_locked(twin.cache, twin.stats,
                                        config.MAX_CACHE_SIZE,
                                        key, value, t, now, now + d)
                    IN [cache |-> r.cache, stats |-> r.stats, result |-> None]
               ELSE [twin EXCEPT !.result = None]

\* the ttl arguments of the sets of SpecTwin: left out (the default), or 0
TwinTTLs == {<<>>, <<0>>}

NextTwin ==
    \/ \E key \in Keys : twin_get(key)
    \/ \E key \in Keys, value \in Values, ttl \in TwinTTLs :
          twin_set(key, value, ttl, 0)
    \/ \E reads \in ScanReads(Len(cache), now) :
          cleanup_expired(reads) /\ UNCHANGED env
    \/ \E reads \in ScanReads(Len(cache), now) : size(reads) /\ UNCHANGED env
    \/ now < MaxTime /\ Tick /\ UNCHANGED env

SpecTwin == Init /\ [][NextTwin]_vars

(* ------------------------------ get_stats ------------------------------ *)

\* n / d rounded to the nearest integer, halves to the even one; n >= 0,
\* d > 0.  (A hit rate is half way between two hundredths only from 32
\* requests on; there the floating-point product decides which one round()
\* returns.)
RoundDiv(n, d) ==
    LET q == n \div d
        r == n % d
    IN IF 2 * r > d THEN q + 1
       ELSE IF 2 * r < d THEN q
       ELSE IF q % 2 = 0 THEN q ELSE q + 1

\* mutant: the rate is left a fraction (no * 100)
hit_rate_fraction(hits, misses) ==
    IF hits + misses > 0 THEN RoundDiv(hits * 100, hits + misses) ELSE 0

\* round(hits / total_requests * 100, 2), 0.0 when there was no request.
\* The number reported has two decimals; the model keeps it in hundredths:
\* hit_rate = 6667 stands for the reported 66.67.
hit_rate(hits, misses) ==
    IF hits + misses > 0 THEN RoundDiv(hits * 100 * 100, hits + misses) ELSE 0

\* oldest_entry_age_seconds: the age of the first entry in the order of the
\* store, None when the store is empty and when the age is 0 (the
\* conditional expression of line 139 tests the age, not its presence).
\* <<>> stands for None, <<n>> for an age of n seconds.
oldest_entry_age(c, t) ==
    IF c # <<>> /\ t - c[1].created_at # 0
    THEN <<t - c[1].created_at>>
    ELSE <<>>

\* get_stats, the body under the lock; t is the reading of the clock
get_stats_locked(c, st, t) ==
    [size |-> Len(c),
     max_size |-> config.MAX_CACHE_SIZE,
     hits |-> st.hits,
     misses |-> st.misses,
     hit_rate |-> hit_rate(st.hits, st.misses),
     evictions |-> st.evictions,
     total_sets |-> st.sets,
     oldest_entry_age_seconds |-> oldest_entry_age(c, t),
     ttl_seconds |-> config.CACHE_TTL_SECONDS]

get_stats ==
    /\ report' = get_stats_locked(cache, stats, now)
    /\ UNCHANGED <<cache, stats, now, config>>
    /\ Done("get_stats", None, None, 0, None, 0)

\* what get_stats leaves alone outside the store
StatsFrame == UNCHANGED <<twin, reqs, running, task, life, thr, lock, lin>>

\* SpecStats: gets, sets and the clock from the construction of the store
\* on, with no reset_stats, and get_stats calls between them
NextStats ==
    \/ \E key \in Keys :
          /\ stats.hits + stats.misses < MaxGets
          /\ get(key)
          /\ UNCHANGED env
    \/ \E key \in Keys, ttl \in TwinTTLs :
          /\ config.CACHE_ENABLED => stats.sets < MaxLifeSets
          /\ set(key, "X", ttl, 0)
          /\ UNCHANGED env
    \/ get_stats /\ StatsFrame
    \/ now < MaxTime /\ Tick /\ UNCHANGED env

SpecStats == Init /\ [][NextStats]_vars

(* ------------------- LRUCache, statement by statement ------------------- *)

\* SpecLock: threads call the methods of one LRUCache; a call is a sequence
\* of steps, one per statement, and the threads interleave between any two
\* steps.  lin is the store a sequential execution of the completed calls
\* leaves, in the order in which they released the lock.

LockKeys == {"a", "b"}
\* the sets of SpecLock pass ttl = 0: an entry is expired one tick later
LockTTLs == {<<0>>}
Ops == {"get", "set", "delete", "clear", "size", "cleanup_expired"}

\* thread t goes to statement pc
Goto(t, pc) == [thr EXCEPT ![t].pc = pc]

\* the keys of an entry sequence, as one is left after the other
RECURSIVE SeqOfKeys(_, _)
SeqOfKeys(c, ks) ==
    IF c = <<>> THEN <<>>
    ELSE IF Head(c).key \in ks
         THEN <<Head(c).key>> \o SeqOfKeys(Tail(c), ks)
         ELSE SeqOfKeys(Tail(c), ks)

\* del self._cache[key], for a key another thread may have removed
DelIfPresent(c, key) == IF Has(c, key) THEN DelKey(c, key) ELSE c

\* a thread calls a method: get and set return at once when caching is
\* disabled (lines 36-37, 59-60), every other call goes for the lock
call(t, op, key, value, ttl) ==
    /\ thr[t].pc = "idle"
    /\ thr[t].calls < MaxThreadCalls
    /\ LET args == [thr[t] EXCEPT
                      !.op = op, !.key = key, !.value = value,
                      !.ttl = IF ttl = <<>> THEN config.CACHE_TTL_SECONDS
                                            ELSE ttl[1],
                      !.reads = <<>>, !.todo = <<>>, !.entry = NoEntry,
                      !.result = Result(None, 0),
                      !.expect = Result(None, 0)]
       IN thr' = [thr EXCEPT ![t] =
                    IF op \in {"get", "set"} /\ ~config.CACHE_ENABLED
                    THEN [NoThread EXCEPT !.calls = thr[t].calls + 1]
                    ELSE [args EXCEPT !.pc = "lock"]]
    /\ UNCHANGED <<core, twin, reqs, running, task, life, report, lock, lin>>

\* mutant: the method body runs without the lock
acquire_nothing(t) ==
    /\ thr[t].pc = "lock"
    /\ thr' = Goto(t, thr[t].op)
    /\ UNCHANGED <<core, twin, reqs, running, task, life, report, lock, lin>>

\* mutant: acquire(blocking=False), a caller that finds the lock taken fails
acquire_or_fail(t) ==
    /\ thr[t].pc = "lock"
    /\ lock' = IF lock = 0 THEN t ELSE lock
    /\ thr' = Goto(t, IF lock = 0 THEN thr[t].op ELSE "idle")
    /\ UNCHANGED <<core, twin, reqs, running, task, life, report, lin>>

\* with self._lock: the thread waits until the lock is free and takes it
acquire(t) ==
    /\ thr[t].pc = "lock"
    /\ lock = 0
    /\ lock' = t
    /\ thr' = Goto(t, thr[t].op)
    /\ UNCHANGED <<core, twin, reqs, running, task, life, report, lin>>

\* what the steps of the method bodies leave alone
LockFrame == UNCHANGED <<config, last, recency, scn, tally, twin, reqs,
                         running, task, life, report, lock, lin>>

\* get, lines 40-55
get_step(t) ==
    LET me == thr[t] IN
    /\ me.pc \in {"get", "get45", "get46", "get50", "get51", "get54"}
    /\ CASE me.pc = "get" ->
              /\ thr' = IF Has(cache, me.key)
                        THEN [thr EXCEPT
                                ![t].entry = Lookup(cache, me.key),
                                ![t].reads = <<now>>,
                                ![t].pc = IF _is_expired(Lookup(cache, me.key),
                                                         now)
                                          THEN "get45" ELSE "get50"]
                        ELSE [thr EXCEPT ![t].reads = <<now>>,
                                         ![t].pc = "get54"]
              /\ UNCHANGED <<cache, stats>>
         [] me.pc = "get45" ->
              /\ cache' = DelIfPresent(cache, me.key)
              /\ thr' = Goto(t, "get46")
              /\ UNCHANGED stats
         [] me.pc \in {"get46", "get54"} ->
              /\ stats' = [stats EXCEPT !.misses = @ + 1]
              /\ thr' = [thr EXCEPT ![t].result = Result(None, 0),
                                    ![t].pc = "unlock"]
              /\ UNCHANGED cache
         [] me.pc = "get50" ->
              /\ cache' = IF Has(cache, me.key)
                          THEN move_to_end(cache, me.key) ELSE cache
              /\ thr' = Goto(t, "get51")
              /\ UNCHANGED stats
         [] me.pc = "get51" ->
              /\ stats' = [stats EXCEPT !.hits = @ + 1]
              /\ thr' = [thr EXCEPT ![t].result = Result(me.entry.value, 0),
                                    ![t].pc = "unlock"]
              /\ UNCHANGED cache
    /\ UNCHANGED now
    /\ LockFrame

\* set, lines 67-79, with _evict_lru, lines 29-31
set_step(t) ==
    LET me == thr[t] IN
    /\ me.pc \in {"set", "set30", "set31", "set73", "set74", "set78", "set79"}
    /\ CASE me.pc = "set" ->
              /\ thr' = Goto(t, IF ~Has(cache, me.key)
                                   /\ Len(cache) >= config.MAX_CACHE_SIZE
                                THEN "set30" ELSE "set73")
              /\ UNCHANGED <<cache, stats>>
         [] me.pc = "set30" ->
              /\ cache' = IF cache # <<>> THEN Tail(cache) ELSE cache
              /\ thr' = Goto(t, IF cache # <<>> THEN "set31" ELSE "set73")
              /\ UNCHANGED stats
         [] me.pc = "set31" ->
              /\ stats' = [stats EXCEPT !.evictions = @ + 1]
              /\ thr' = Goto(t, "set73")
              /\ UNCHANGED cache
         [] me.pc = "set73" ->
              /\ thr' = [thr EXCEPT ![t].reads = <<now>>, ![t].pc = "set74"]
              /\ UNCHANGED <<cache, stats>>
         [] me.pc = "set74" ->
              /\ cache' = SetItem(cache, me.key,
                                  [key |-> me.key, value |-> me.value,
                                   expires_at |-> me.reads[1] + me.ttl,
                                   created_at |-> now])
              /\ thr' = [thr EXCEPT ![t].reads = Append(@, now),
                                    ![t].pc = "set78"]
              /\ UNCHANGED stats
         [] me.pc = "set78" ->
              /\ cache' = IF Has(cache, me.key)
                          THEN move_to_end(cache, me.key) ELSE cache
              /\ thr' = Goto(t, "set79")
              /\ UNCHANGED stats
         [] me.pc = "set79" ->
              /\ stats' = [stats EXCEPT !.sets = @ + 1]
              /\ thr' = Goto(t, "unlock")
              /\ UNCHANGED cache
    /\ UNCHANGED now
    /\ LockFrame

\* delete, lines 84-85, and clear, line 90
delete_step(t) ==
    LET me == thr[t] IN
    /\ me.pc \in {"delete", "delete85", "clear"}
    /\ CASE me.pc = "delete" ->
              /\ thr' = Goto(t, IF Has(cache, me.key)
                                THEN "delete85" ELSE "unlock")
              /\ UNCHANGED cache
         [] me.pc = "delete85" ->
              /\ cache' = DelIfPresent(cache, me.key)
              /\ thr' = Goto(t, "unlock")
         [] me.pc = "clear" ->
              /\ cache' = <<>>
              /\ thr' = Goto(t, "unlock")
    /\ UNCHANGED <<stats, now>>
    /\ LockFrame

\* size, lines 97-101, and cleanup_expired, lines 106-113: the scan that
\* builds expired_keys, then one del for each of them
scan_step(t, reads) ==
    LET me == thr[t] IN
    /\ me.pc \in {"size", "cleanup_expired"}
    /\ thr' = [thr EXCEPT
                 ![t].reads = reads,
                 ![t].todo = SeqOfKeys(cache, expired_keys(cache, reads)),
                 ![t].result =
                    Result(None, Cardinality(expired_keys(cache, reads))),
                 ![t].pc = "del_expired"]
    /\ now' = AfterScan(reads, now)
    /\ UNCHANGED <<cache, stats>>
    /\ LockFrame

del_expired_step(t) ==
    LET me == thr[t] IN
    /\ me.pc = "del_expired"
    /\ IF me.todo # <<>>
       THEN /\ cache' = DelIfPresent(cache, Head(me.todo))
            /\ thr' = [thr EXCEPT ![t].todo = Tail(@)]
       ELSE /\ thr' = [thr EXCEPT
                         ![t].result = IF me.op = "size"
                                       THEN Result(None, Len(cache))
                                       ELSE @,
                         ![t].pc = "unlock"]
            /\ UNCHANGED cache
    /\ UNCHANGED <<stats, now>>
    /\ LockFrame

\* the readings of a scan, for a store of n entries
ReadsFor(reads, n) ==
    [i \in 1..n |-> IF i <= Len(reads) THEN reads[i] ELSE now]

\* the call of thread t, run in one piece on the store c with the counters
\* st and the readings of the clock the call has made
Alone(me, c, st) ==
    CASE me.op = "get" ->
           LET r == get_locked(c, st, me.key, me.reads[1])
           IN [cache |-> r.cache, stats |-> r.stats,
               result |-> Result(r.result, 0)]
      [] me.op = "set" ->
           LET r == set_locked(c, st, config.MAX_CACHE_SIZE, me.key,
                               me.value, me.ttl, me.reads[1], me.reads[2])
           IN [cache |-> r.cache, stats |-> r.stats,
               result |-> Result(None, 0)]
      [] me.op = "delete" ->
           [cache |-> DelIfPresent(c, me.key), stats |-> st,
            result |-> Result(None, 0)]
      [] me.op = "clear" ->
           [cache |-> <<>>, stats |-> st, result |-> Result(None, 0)]
      [] me.op = "size" ->
           LET p == purge(c, ReadsFor(me.reads, Len(c)))
           IN [cache |-> p, stats |-> st, result |-> Result(None, Len(p))]
      [] me.op = "cleanup_expired" ->
           LET rs == ReadsFor(me.reads, Len(c))
           IN [cache |-> purge(c, rs), stats |-> st,
               result |-> Result(None, Cardinality(expired_keys(c, rs)))]

\* mutant: the method returns without releasing the lock
release_holding(t) ==
    /\ thr[t].pc = "unlock"
    /\ LET a == Alone(thr[t], lin.cache, lin.stats) IN
          /\ lin' = [cache |-> a.cache, stats |-> a.stats]
          /\ thr' = [thr EXCEPT ![t] = [NoThread EXCEPT
                                          !.result = thr[t].result,
                                          !.expect = a.result,
                                          !.calls = thr[t].calls + 1]]
    /\ UNCHANGED <<core, twin, reqs, running, task, life, report, lock>>

\* the with block ends: the lock is released and the method returns
release(t) ==
    /\ thr[t].pc = "unlock"
    /\ lock' = IF lock = t THEN 0 ELSE lock
    /\ LET a == Alone(thr[t], lin.cache, lin.stats) IN
          /\ lin' = [cache |-> a.cache, stats |-> a.stats]
          /\ thr' = [thr EXCEPT ![t] = [NoThread EXCEPT
                                          !.result = thr[t].result,
                                          !.expect = a.result,
                                          !.calls = thr[t].calls + 1]]
    /\ UNCHANGED <<core, twin, reqs, running, task, life, report>>

NextLock ==
    \/ \E t \in Threads, op \in Ops, key \in LockKeys, ttl \in LockTTLs :
          call(t, op, IF op \in {"get", "set", "delete"} THEN key ELSE None,
               IF op = "set" THEN "X" ELSE None,
               IF op = "set" THEN ttl ELSE <<0>>)
    \/ \E t \in Threads : acquire(t)
    \/ \E t \in Threads : get_step(t)
    \/ \E t \in Threads : set_step(t)
    \/ \E t \in Threads : delete_step(t)
    \/ \E t \in Threads, reads \in ScanReads(Len(cache), now) :
          scan_step(t, reads)
    \/ \E t \in Threads : del_expired_step(t)
    \/ \E t \in Threads : release(t)
    \/ now < MaxTime /\ Tick /\ UNCHANGED env

SpecLock == Init /\ [][NextLock]_vars

\* a step of the call thread t is making
ThreadStep(t) ==
    \/ acquire(t)
    \/ get_step(t)
    \/ set_step(t)
    \/ delete_step(t)
    \/ \E reads \in ScanReads(Len(cache), now) : scan_step(t, reads)
    \/ del_expired_step(t)
    \/ release(t)

\* The scheduler runs every thread that can run: a thread that is inside a
\* method, or waits for a lock that stays free, takes its next step.  (Every
\* step of a thread changes its position or the deletions it has left.)
LockFairness ==
    \A t \in Threads : WF_<<thr[t].pc, thr[t].todo>>(ThreadStep(t))

\* SpecContend: the threads of SpecLock under that scheduler, on a store with
\* caching enabled and room for one entry, so that the sets of the two keys
\* evict each other
InitContend ==
    /\ Init
    /\ config.CACHE_ENABLED
    /\ config.MAX_CACHE_SIZE = 1

SpecContend == InitContend /\ [][NextLock]_vars /\ LockFairness

(* ------------------------- the /extract-text handler -------------------- *)

\* config.py
ALLOWED_EXTENSIONS == {"jpg", "jpeg", "png", "gif", "webp", "bmp"}
ALLOWED_MIME_TYPES == {"image/jpeg", "image/jpg", "image/png", "image/gif",
                       "image/webp", "image/bmp"}
SIGNATURE_FORMATS == {"jpg", "png", "gif", "webp", "bmp"}
MAX_FILE_SIZE_BYTES == 10 * 1024 * 1024

\* The byte strings of the model, by what the validators find in them:
\*   png1   an image
\*   png1x  the same image in a file detect_corruption finds issues in and
\*          attempt_repair saves again as png1
\*   png2   another image
\*   bad    an image file that stays corrupted after attempt_repair
\*   junk   bytes that start with no known signature
\*   ""     the empty file
\*   huge   an image of more than MAX_FILE_SIZE_BYTES
Bytes == {"png1", "png1x", "png2", "bad", "junk", "", "huge"}

\* a file name is the sequence of its parts between the dots
Lower(x) == CASE x = "PNG" -> "png" [] x = "JPG" -> "jpg" [] OTHER -> x

\* len(file_content)
FileSize(b) == CASE b = "" -> 0
                 [] b = "huge" -> MAX_FILE_SIZE_BYTES + 1
                 [] OTHER -> 2048

\* the format of the signature the bytes start with
Signature(b) == IF b = "junk" \/ b = "" THEN "none" ELSE "png"

\* validators.validate_file_extension
validate_file_extension(filename) ==
    /\ filename # <<>>
    /\ Lower(filename[Len(filename)]) \in ALLOWED_EXTENSIONS

\* validators.validate_mime_type
validate_mime_type(content_type) ==
    \/ content_type = "application/octet-stream"
    \/ content_type \in ALLOWED_MIME_TYPES

\* validators.validate_file_size
validate_file_size(file_size) ==
    file_size # 0 /\ file_size <= MAX_FILE_SIZE_BYTES

\* validators.validate_file_signature
validate_file_signature(b) == Signature(b) \in SIGNATURE_FORMATS

\* corruption_detector.detect_corruption: is_corrupted
detect_corruption(b) == b \in {"png1x", "bad"}

\* corruption_detector.attempt_repair
attempt_repair(b) == IF b = "png1x" THEN "png1" ELSE b

\* validators.validate_image_integrity: whether it returns, and the content
validate_image_integrity(b) ==
    IF detect_corruption(b)
    THEN [ok |-> ~detect_corruption(attempt_repair(b)),
          content |-> attempt_repair(b)]
    ELSE [ok |-> TRUE, content |-> b]

\* validate_upload_file up to its await of file.read()
validate_before_read(upload) ==
    /\ validate_file_extension(upload.filename)
    /\ validate_mime_type(upload.content_type)

\* validate_upload_file after file.read(): whether it returns, and the
\* file content it returns
validate_after_read(b) ==
    IF validate_file_size(FileSize(b)) /\ validate_file_signature(b)
    THEN validate_image_integrity(b)
    ELSE [ok |-> FALSE, content |-> b]

\* generate_cache_key: the SHA256 digest of the content, distinct for the
\* distinct contents of the model
generate_cache_key(file_content) ==
    CASE file_content = "png1" -> "a"
      [] file_content = "png2" -> "b"
      [] OTHER -> "c"

\* mutant: the key is derived from the file name
cache_key_by_name(upload, file_content) ==
    CASE upload.filename[1] = "scan" -> "a"
      [] upload.filename[1] = "photo" -> "b"
      [] OTHER -> "c"

\* extract_text: cache_key = generate_cache_key(file_content)
cache_key(upload, file_content) == generate_cache_key(file_content)

\* the uploads of the model
Uploads ==
    {[filename |-> <<"scan", "png">>, content_type |-> "image/png",
      bytes |-> "png1"],
     [filename |-> <<"photo", "JPG">>,
      content_type |-> "application/octet-stream", bytes |-> "png1"],
     [filename |-> <<"fixed", "jpeg">>, content_type |-> "image/jpeg",
      bytes |-> "png1x"],
     [filename |-> <<"scan", "png">>, content_type |-> "image/png",
      bytes |-> "png2"],
     [filename |-> <<"notes", "txt">>, content_type |-> "image/png",
      bytes |-> "png1"],
     [filename |-> <<"scan", "png">>, content_type |-> "text/plain",
      bytes |-> "png1"],
     [filename |-> <<>>, content_type |-> "image/png", bytes |-> "png1"],
     [filename |-> <<"scan", "png">>, content_type |-> "image/png",
      bytes |-> "bad"],
     [filename |-> <<"scan", "png">>, content_type |-> "image/png",
      bytes |-> "junk"],
     [filename |-> <<"scan", "png">>, content_type |-> "image/png",
      bytes |-> ""],
     [filename |-> <<"scan", "png">>, content_type |-> "image/png",
      bytes |-> "huge"]}

\* what the backend returns: a text, or it raises
OcrOutcomes == Values \cup {"raise"}

\* the two handlers that use the cache: extract_text, and
\* process_single_image for each item of a batch
Endpoints == {"single", "batch"}

\* where an exception leaves the request: extract_text lets it propagate,
\* process_single_image catches it and returns success: False for the item
Raised(endpoint, pc) == IF endpoint = "batch" THEN "item_failed" ELSE pc

\* the request arrives: validate_upload_file runs to its await
receive(r, upload, endpoint) ==
    /\ running = 0
    /\ reqs[r].pc = "idle"
    /\ reqs' = [reqs EXCEPT ![r].upload = upload,
                            ![r].endpoint = endpoint,
                            ![r].pc = IF validate_before_read(upload)
                                      THEN "reading"
                                      ELSE Raised(endpoint, "rejected")]
    /\ UNCHANGED <<core, twin, running, aside>>

\* mutant: the backend call is awaited, so the event loop is free to run
\* other handlers from the lookup on
check_cache_awaiting(r) ==
    /\ reqs[r].pc = "reading"
    /\ LET v == validate_after_read(reqs[r].upload.bytes)
           key == cache_key(reqs[r].upload, v.content)
       IN IF ~v.ok
          THEN /\ reqs' = [reqs EXCEPT
                               ![r].pc = Raised(reqs[r].endpoint, "rejected")]
               /\ UNCHANGED core
          ELSE /\ get(key)
               /\ reqs' = [reqs EXCEPT
                     ![r].pc = IF last'.result # None THEN "done" ELSE "ocr",
                     ![r].file_content = v.content,
                     ![r].cache_key = key,
                     ![r].text = last'.result,
                     ![r].cached = last'.result # None]
    /\ UNCHANGED <<twin, running, aside>>

\* file.read() returns: the rest of validate_upload_file, the key and
\* cache.get; on a hit the handler returns the cached result
check_cache(r) ==
    /\ running = 0
    /\ reqs[r].pc = "reading"
    /\ LET v == validate_after_read(reqs[r].upload.bytes)
           key == cache_key(reqs[r].upload, v.content)
       IN IF ~v.ok
          THEN /\ reqs' = [reqs EXCEPT
                               ![r].pc = Raised(reqs[r].endpoint, "rejected")]
               /\ UNCHANGED <<core, running>>
          ELSE /\ get(key)
               /\ IF last'.result # None
                  THEN /\ reqs' = [reqs EXCEPT ![r].pc = "done",
                                               ![r].file_content = v.content,
                                               ![r].cache_key = key,
                                               ![r].text = last'.result,
                                               ![r].cached = TRUE]
                       /\ UNCHANGED running
                  ELSE /\ reqs' = [reqs EXCEPT ![r].pc = "ocr",
                                               ![r].file_content = v.content,
                                               ![r].cache_key = key]
                       /\ running' = r
    /\ UNCHANGED <<twin, aside>>

\* mutant: the handler catches the backend's exception and goes on to cache
\* the error as the result
call_backend_caching_error(r, outcome) ==
    /\ running = r
    /\ reqs[r].pc = "ocr"
    /\ reqs' = [reqs EXCEPT ![r].pc = "caching",
                            ![r].text = outcome,
                            ![r].calls = @ + 1]
    /\ UNCHANGED <<core, twin, running, aside>>

\* ocr_service.extract_text_with_metadata returns or raises; the call is
\* synchronous, so the event loop runs nothing else until the handler ends
call_backend(r, outcome) ==
    /\ running = r
    /\ reqs[r].pc = "ocr"
    /\ IF outcome = "raise"
       THEN /\ reqs' = [reqs EXCEPT
                          ![r].pc = Raised(reqs[r].endpoint, "failed"),
                          ![r].calls = @ + 1]
            /\ running' = 0
       ELSE /\ reqs' = [reqs EXCEPT ![r].pc = "caching",
                                    ![r].text = outcome,
                                    ![r].calls = @ + 1]
            /\ UNCHANGED running
    /\ UNCHANGED <<core, twin, aside>>

\* cache.set(cache_key, response_data) and the response
store_result(r, d) ==
    /\ running = r
    /\ reqs[r].pc = "caching"
    /\ now + d <= MaxTime
    /\ set(reqs[r].cache_key, reqs[r].text, <<>>, d)
    /\ reqs' = [reqs EXCEPT ![r].pc = "done"]
    /\ running' = 0
    /\ UNCHANGED <<twin, aside>>

\* the sweep task, between two sleeps
sweep(reads) ==
    /\ running = 0
    /\ cleanup_expired(reads)
    /\ UNCHANGED env

NextReq ==
    \/ \E r \in ReqIds, upload \in Uploads, endpoint \in Endpoints :
          receive(r, upload, endpoint)
    \/ \E r \in ReqIds : check_cache(r)
    \/ \E r \in ReqIds, outcome \in OcrOutcomes : call_backend(r, outcome)
    \/ \E r \in ReqIds, d \in 0..MaxDrift : store_result(r, d)
    \/ \E reads \in ScanReads(Len(cache), now) : sweep(reads)
    \/ now < MaxTime /\ Tick /\ UNCHANGED env

SpecReq == Init /\ [][NextReq]_vars

(* ------------ the handlers and the sweep, statement by statement -------- *)

\* SpecHold: the coroutines of main.py, the handlers and the sweep task, run
\* on the one thread of the event loop, thread Loop of thr; running is the
\* coroutine that runs between two awaits.  Their calls of cache.get,
\* cache.set and cache.cleanup_expired are made statement by statement, with
\* the steps of SpecLock.

\* the thread of the event loop
Loop == 1
\* running = SweepTask while cleanup_cache_periodically runs
SweepTask == NReq + 1

\* the thread enters a method: cache.get and cache.set return at once when
\* caching is disabled (lines 36-37, 59-60)
Entered(op, key, value) ==
    [thr EXCEPT ![Loop] =
       IF op \in {"get", "set"} /\ ~config.CACHE_ENABLED
       THEN NoThread
       ELSE [NoThread EXCEPT !.pc = "lock", !.op = op, !.key = key,
                             !.value = value,
                             !.ttl = config.CACHE_TTL_SECONDS]]

\* the method has returned to the coroutine
Returned == thr[Loop].pc = "idle"

\* what the steps of the coroutines leave alone
HoldFrame == UNCHANGED <<core, twin, task, life, report, lock, lin>>

\* file.read() returns: the rest of validate_upload_file, the key, and the
\* call of cache.get (main.py:122-128, 217-223)
hold_lookup(r) ==
    /\ running = 0
    /\ reqs[r].pc = "reading"
    /\ LET v == validate_after_read(reqs[r].upload.bytes)
           key == cache_key(reqs[r].upload, v.content)
       IN IF ~v.ok
          THEN /\ reqs' = [reqs EXCEPT
                               ![r].pc = Raised(reqs[r].endpoint, "rejected")]
               /\ UNCHANGED <<running, thr>>
          ELSE /\ reqs' = [reqs EXCEPT ![r].pc = "get",
                                       ![r].file_content = v.content,
                                       ![r].cache_key = key]
               /\ running' = r
               /\ thr' = Entered("get", key, None)
    /\ HoldFrame

\* cache.get has returned: if cached_result, the handler answers from the
\* cache, otherwise it goes on to the backend call (main.py:129-149)
hold_looked(r) ==
    /\ running = r
    /\ reqs[r].pc = "get"
    /\ Returned
    /\ IF thr[Loop].result.value # None
       THEN /\ reqs' = [reqs EXCEPT ![r].pc = "done",
                                    ![r].text = thr[Loop].result.value,
                                    ![r].cached = TRUE]
            /\ running' = 0
       ELSE /\ reqs' = [reqs EXCEPT ![r].pc = "ocr"]
            /\ UNCHANGED running
    /\ thr' = [thr EXCEPT ![Loop] = NoThread]
    /\ HoldFrame

\* the call of cache.set(cache_key, response_data) (main.py:173, 260)
hold_store(r) ==
    /\ running = r
    /\ reqs[r].pc = "caching"
    /\ reqs' = [reqs EXCEPT ![r].pc = "set"]
    /\ thr' = Entered("set", reqs[r].cache_key, reqs[r].text)
    /\ UNCHANGED running
    /\ HoldFrame

\* cache.set has returned: the handler answers and ends
hold_stored(r) ==
    /\ running = r
    /\ reqs[r].pc = "set"
    /\ Returned
    /\ reqs' = [reqs EXCEPT ![r].pc = "done"]
    /\ running' = 0
    /\ thr' = [thr EXCEPT ![Loop] = NoThread]
    /\ HoldFrame

\* the sleep of the sweep task ends: cache.cleanup_expired() is called
\* (main.py:28-29)
hold_sweep ==
    /\ running = 0
    /\ running' = SweepTask
    /\ thr' = Entered("cleanup_expired", None, None)
    /\ UNCHANGED reqs
    /\ HoldFrame

\* cleanup_expired has returned: the task sleeps again
hold_swept ==
    /\ running = SweepTask
    /\ Returned
    /\ running' = 0
    /\ thr' = [thr EXCEPT ![Loop] = NoThread]
    /\ UNCHANGED reqs
    /\ HoldFrame

NextHold ==
    \/ \E r \in ReqIds, upload \in Uploads, endpoint \in Endpoints :
          receive(r, upload, endpoint)
    \/ \E r \in ReqIds : hold_lookup(r)
    \/ \E r \in ReqIds : hold_looked(r)
    \/ \E r \in ReqIds, outcome \in OcrOutcomes : call_backend(r, outcome)
    \/ \E r \in ReqIds : hold_store(r)
    \/ \E r \in ReqIds : hold_stored(r)
    \/ hold_sweep
    \/ hold_swept
    \/ acquire(Loop)
    \/ get_step(Loop)
    \/ set_step(Loop)
    \/ \E reads \in ScanReads(Len(cache), now) : scan_step(Loop, reads)
    \/ del_expired_step(Loop)
    \/ release(Loop)
    \/ now < MaxTime /\ Tick /\ UNCHANGED env

SpecHold == Init /\ [][NextHold]_vars

(* --------------------- lifespan and the sweep task ---------------------- *)

\* task: "none" before create_task, "pending" until the event loop first
\* runs the coroutine, "sleeping" at await asyncio.sleep, "cancelling" from
\* task.cancel() until the CancelledError is thrown into the coroutine,
\* "cancelled" after it, "failed" when an exception has left the coroutine.
\* life: "import", "serving" (after the yield of lifespan), "awaiting"
\* (at await task), "stopped" (lifespan returned), "crashed" (it raised).

\* what the steps of lifespan and of the task leave alone
LifeFrame == UNCHANGED <<cache, stats, now, config, twin, reqs, running,
                         report, thr, lock, lin>>

\* lifespan to its yield: task = asyncio.create_task(...)
lifespan_startup ==
    /\ life = "import"
    /\ life' = "serving"
    /\ task' = "pending"
    /\ LifeFrame
    /\ Done("startup", None, None, 0, None, 0)

\* the event loop runs the coroutine for the first time, up to its sleep
task_start ==
    /\ task = "pending"
    /\ running = 0
    /\ task' = "sleeping"
    /\ UNCHANGED life
    /\ LifeFrame
    /\ Done("task_start", None, None, 0, None, 0)

\* mutant: the loop goes back to sleep without calling cleanup_expired
sweep_pass_sleeping_on(reads) ==
    /\ task = "sleeping"
    /\ running = 0
    /\ UNCHANGED vars

\* one turn of the while loop: the sleep ends, cleanup_expired runs and
\* returns, the task sleeps again
sweep_pass(reads) ==
    /\ task = "sleeping"
    /\ sweep(reads)

\* a turn of the loop in which cleanup_expired raises (done: it had made its
\* deletions): nothing in the loop catches the exception, which ends the task
sweep_failure(reads, done) ==
    /\ task = "sleeping"
    /\ running = 0
    /\ cache' = IF done THEN purge(cache, reads) ELSE cache
    /\ now' = AfterScan(reads, now)
    /\ task' = "failed"
    /\ UNCHANGED <<stats, config, twin, reqs, running, life, report, thr,
                   lock, lin>>
    /\ Done("cleanup_raised", None, None, 0, None, 0)

\* lifespan after its yield: task.cancel(), up to await task; cancel() does
\* nothing to a task that is done
shutdown_cancel ==
    /\ life = "serving"
    /\ running = 0
    /\ life' = "awaiting"
    /\ task' = IF task \in {"pending", "sleeping"} THEN "cancelling" ELSE task
    /\ LifeFrame
    /\ Done("cancel", None, None, 0, None, 0)

\* mutant: the coroutine catches the CancelledError and goes on looping
task_ignores_cancel ==
    /\ task = "cancelling"
    /\ running = 0
    /\ task' = "sleeping"
    /\ UNCHANGED life
    /\ LifeFrame
    /\ Done("task_cancelled", None, None, 0, None, 0)

\* the event loop resumes the task by throwing CancelledError into it, at
\* its sleep or before its first statement; nothing catches it
task_cancelled ==
    /\ task = "cancelling"
    /\ running = 0
    /\ task' = "cancelled"
    /\ UNCHANGED life
    /\ LifeFrame
    /\ Done("task_cancelled", None, None, 0, None, 0)

\* await task returns control to lifespan: a CancelledError is caught and
\* lifespan returns, the exception of a failed task is raised again
shutdown_finish ==
    /\ life = "awaiting"
    /\ task \in {"cancelled", "failed"}
    /\ life' = IF task = "cancelled" THEN "stopped" ELSE "crashed"
    /\ UNCHANGED task
    /\ LifeFrame
    /\ Done("shutdown", None, None, 0, None, 0)

NextLife ==
    \/ lifespan_startup
    \/ task_start
    \/ \E reads \in ScanReads(Len(cache), now) : sweep_pass(reads)
    \/ \E reads \in ScanReads(Len(cache), now), done \in BOOLEAN :
          sweep_failure(reads, done)
    \/ shutdown_cancel
    \/ task_cancelled
    \/ shutdown_finish
    \/ \E key \in Keys, ttl \in TwinTTLs :
          /\ life \in {"serving", "awaiting"}
          /\ config.CACHE_ENABLED => stats.sets < MaxLifeSets
          /\ set(key, "X", ttl, 0)
          /\ UNCHANGED env
    \/ now < MaxTime /\ Tick /\ UNCHANGED env

\* The event loop runs every task that is ready and every sleep ends: the
\* steps of the task and the return of await task happen when they can.
LifeFairness ==
    /\ WF_vars(task_start)
    /\ WF_vars(\E reads \in ScanReads(Len(cache), now) : sweep_pass(reads))
    /\ WF_vars(task_cancelled)
    /\ WF_vars(shutdown_finish)

SpecLife == Init /\ [][NextLife]_vars /\ LifeFairness

(* -------------------------------- claims ------------------------------- *)

Enabled == config.CACHE_ENABLED
Capacity == config.MAX_CACHE_SIZE

\* the step is a completed call of op
Call(op) == last'.op = op
\* the step is a set that writes (caching is enabled)
Write == Call("set") /\ Enabled
\* the entries of c other than key's, in order
Others(c, key) == SelectEntries(c, KeySet(c) \ {key})
\* the entries of c whose keys are in keep, in order
Kept(c, keep) == SelectEntries(c, keep)
Live(c, t) == {i \in 1..Len(c) : ~(t > c[i].expires_at)}
Stale(c, t) == {i \in 1..Len(c) : t > c[i].expires_at}

\* C1 (capacity invariant): with caching enabled and a capacity C >= 1, the
\* store holds at most C entries after every completed call, whatever the
\* calls, keys, ttls and clock.
C1_CapacityInvariant ==
    (Enabled /\ Capacity >= 1) => Len(cache) <= Capacity

\* a set of a new key has just evicted at full capacity and the store is
\* full again
C1_Witness ==
    /\ Enabled /\ Capacity >= 1
    /\ last.op = "set" /\ ~last.had /\ last.len = Capacity
    /\ Len(cache) = Capacity
    /\ stats.evictions = 1

\* C2 (LRU correctness): a set of an absent key into a store holding exactly
\* C >= 1 entries removes exactly one entry, the front of the order, which is
\* the key least recently touched by a hit or a set; all other entries are
\* unchanged and the new key is stored, expired entries or not.
C2_LRUEviction ==
    [][(/\ Write /\ Capacity >= 1
        /\ Len(cache) = Capacity /\ ~Has(cache, last'.key))
       => /\ Head(cache).key = Head(recency)
          /\ ~Has(cache', Head(recency))
          /\ Others(cache', last'.key) = Tail(cache)
          /\ Len(cache') = Len(cache)
          /\ Has(cache', last'.key)
          /\ stats'.evictions = stats.evictions + 1]_vars

\* an evicting set into a store of two entries of which the one kept was
\* already expired, so a live entry was evicted
C2_Witness ==
    /\ Enabled /\ Capacity = 2
    /\ last.op = "set" /\ ~last.had /\ last.len = 2
    /\ Len(cache) = 2
    /\ now > cache[1].expires_at
    /\ stats.evictions = 1

\* C3 (recency update): a get that hits k and any set of k leave k at the
\* most recently used end and the other keys in their order; a get that
\* misses leaves the remaining keys in their order; so the order of the
\* store is the order of last touch.  With capacity 2: set(a), set(b),
\* get(a) hits, set(c) evicts b and leaves a, c, and get(b) misses.
C3_RecencyUpdate ==
    [][/\ (Write \/ (Call("get") /\ last'.result # None))
          => /\ cache'[Len(cache')].key = last'.key
             /\ KeysOf(Others(cache', last'.key))
                  = KeysOf(Kept(cache, KeySet(cache') \ {last'.key}))
       /\ (Call("get") /\ last'.result = None)
          => KeysOf(cache') = KeysOf(Kept(cache, KeySet(cache')))
       /\ KeysOf(cache') = recency'
       /\ (scn' = 3 /\ Call("get"))
          => last'.result # None /\ KeysOf(cache') = <<"b", "a">>
       /\ scn' = 4 => KeysOf(cache') = <<"a", "c">> /\ ~Has(cache', "b")
       /\ (scn' = 5 /\ Call("get"))
          => last'.result = None /\ KeysOf(cache') = <<"a", "c">>
      ]_vars

\* the scenario has run to its end
C3_Witness ==
    scn = 5 /\ last.op = "get" /\ last.key = "b" /\ Capacity = 2

\* C4 (overwrite does not evict): a set of a key that is present, at full
\* capacity too, removes nothing, leaves every other entry as it was, leaves
\* the eviction counter and raises the set counter by one.
C4_OverwriteNoEvict ==
    [][(Write /\ Has(cache, last'.key))
       => /\ Len(cache') = Len(cache)
          /\ KeySet(cache') = KeySet(cache)
          /\ Others(cache', last'.key) = Others(cache, last'.key)
          /\ stats'.evictions = stats.evictions
          /\ stats'.sets = stats.sets + 1
          /\ stats'.hits = stats.hits /\ stats'.misses = stats.misses]_vars

\* an overwrite of the least recently used key of a full store of two
C4_Witness ==
    /\ Enabled /\ Capacity = 2
    /\ last.op = "set" /\ last.had /\ last.len = 2
    /\ Len(cache) = 2
    /\ stats.sets = 1 /\ stats.evictions = 0

\* C5 (no stale reads): get returns a value only for a present key whose
\* expires_at the clock has not passed, and the value is the stored one; a
\* stored entry is what the last set of its key wrote (value, and expiry
\* s + t for a set at s with ttl t) and nothing else changes it; so get
\* returns the value before s + t and misses after s + t.
C5_NoStaleRead ==
    [][/\ (Call("get") /\ last'.result # None)
          => /\ Has(cache, last'.key)
             /\ ~(now > Lookup(cache, last'.key).expires_at)
             /\ last'.result = Lookup(cache, last'.key).value
       /\ (Call("get") /\ Enabled /\ Has(cache, last'.key))
          => LET e == Lookup(cache, last'.key) IN
             /\ now < e.expires_at => last'.result = e.value
             /\ now > e.expires_at => last'.result = None
       /\ Write
          => /\ Lookup(cache', last'.key).value = last'.value
             /\ Lookup(cache', last'.key).expires_at = now + last'.ttl
       /\ \A k \in KeySet(cache) \cap KeySet(cache') :
             ~(Write /\ last'.key = k) => Lookup(cache', k) = Lookup(cache, k)
      ]_vars

\* a get has returned the value of an entry one tick before its expiry
C5_Witness ==
    /\ last.op = "get" /\ last.result # None
    /\ Has(cache, last.key)
    /\ now < Lookup(cache, last.key).expires_at
    /\ now > 0

\* C6 (lazy expiry): a get of a key that is present and expired removes that
\* entry and no other, raises misses by one, leaves the other counters and
\* returns a miss; a size() that follows does not count the key.
C6_LazyExpiry ==
    [][/\ (/\ Call("get") /\ Enabled /\ Has(cache, last'.key)
           /\ now > Lookup(cache, last'.key).expires_at)
          => /\ last'.result = None
             /\ cache' = Others(cache, last'.key)
             /\ stats' = [stats EXCEPT !.misses = @ + 1]
       /\ (/\ Call("size")
           /\ last.op = "get" /\ last.had /\ last.result = None /\ Enabled)
          => /\ ~Has(cache', last.key)
             /\ last'.count = Len(cache')
             /\ KeySet(cache') \subseteq KeySet(cache)
      ]_vars

\* a get has found its key expired and removed it, another entry stays
C6_Witness ==
    /\ last.op = "get" /\ last.had /\ last.result = None
    /\ ~Has(cache, last.key)
    /\ Len(cache) = 1
    /\ stats.misses = 1 /\ stats.hits = 0

\* C7 (disabled-cache bypass): with caching disabled every get misses and
\* every set does nothing: the store stays empty and no counter moves.
C7_DisabledBypass ==
    ~Enabled => /\ cache = <<>>
                /\ stats = InitStats
                /\ last.op = "get" => last.result = None

\* a get after a set, caching disabled
C7_Witness ==
    ~Enabled /\ last.op = "get" /\ last.key = "a" /\ scn = 0 /\ now > 0

\* C8 (sweep convergence): one cleanup_expired removes the entries whose
\* expiry the clock has passed and no other, returns their number and
\* leaves the live entries, their values, expiries and order as they were;
\* it changes no counter.  (The scan reads the clock once per entry: an entry
\* expired when the call starts goes, one still live when it ends stays.)
C8_SweepConvergence ==
    [][Call("cleanup_expired")
       => /\ \A i \in Stale(cache, now) : ~Has(cache', cache[i].key)
          /\ \A i \in Live(cache, now') : Has(cache', cache[i].key)
          /\ cache' = Kept(cache, KeySet(cache'))
          /\ last'.count = Len(cache) - Len(cache')
          /\ (Stale(cache, now) \cup Live(cache, now') = 1..Len(cache))
             => /\ last'.count = Cardinality(Stale(cache, now))
                /\ Len(cache') = Cardinality(Live(cache, now))
          /\ stats' = stats]_vars

\* a sweep has removed one expired entry and left one live entry
C8_Witness ==
    /\ last.op = "cleanup_expired" /\ last.count = 1
    /\ Len(cache) = 1
    /\ ~(now > cache[1].expires_at)

Looked(r) == reqs[r].pc = "reading" /\ reqs'[r].pc \in {"ocr", "done"}

\* C10 (content-addressed hit): the key is a function of the validated
\* content alone; a request whose validated content equals that of a request
\* that completed, while the entry under that key is stored and not expired,
\* derives the same key under any accepted file name and content type, hits,
\* returns the cached result and makes no backend call.
C10_ContentAddressedHit ==
    [][\A r \in ReqIds : \A r2 \in ReqIds :
          (/\ Looked(r)
           /\ reqs[r2].pc = "done"
           /\ reqs[r2].file_content = reqs'[r].file_content)
          => /\ reqs'[r].cache_key = reqs[r2].cache_key
             /\ (/\ Enabled
                 /\ Has(cache, reqs[r2].cache_key)
                 /\ ~(now > Lookup(cache, reqs[r2].cache_key).expires_at))
                => /\ reqs'[r].pc = "done"
                   /\ reqs'[r].cached
                   /\ reqs'[r].text
                        = Lookup(cache, reqs[r2].cache_key).value
                   /\ reqs'[r].calls = 0
      ]_vars

\* request 1 called the backend and cached its result; request 2, with
\* another file name, content type and raw bytes but the same validated
\* content, was served from the cache
C10_Witness ==
    /\ reqs[1].pc = "done" /\ ~reqs[1].cached /\ reqs[1].calls = 1
    /\ reqs[2].pc = "done" /\ reqs[2].cached /\ reqs[2].calls = 0
    /\ reqs[1].upload.filename # reqs[2].upload.filename
    /\ reqs[1].upload.content_type # reqs[2].upload.content_type
    /\ reqs[1].upload.bytes # reqs[2].upload.bytes
    /\ reqs[1].file_content = reqs[2].file_content
    /\ reqs[2].text = reqs[1].text

\* the step is the backend call of request r raising
BackendFailed(r) ==
    reqs[r].pc = "ocr" /\ reqs'[r].pc \in {"failed", "item_failed"}

\* the step writes an entry: adds a key or changes the entry of one
Written == \E k \in KeySet(cache') :
              ~Has(cache, k) \/ Lookup(cache', k) # Lookup(cache, k)

\* C11 (failures are never cached): when the backend fails on a miss, in
\* extract_text or in an item of a batch, no set is made: from the miss to
\* the failure the store and the counters stay as they are, the key is absent
\* afterwards, so a later get misses; an entry is written only by a request
\* whose backend call returned, and holds what it returned.
C11_FailuresNotCached ==
    [][/\ \A r \in ReqIds :
             (Looked(r) /\ reqs'[r].pc = "ocr")
             => /\ stats'.sets = stats.sets
                /\ ~Written
                /\ ~Has(cache', reqs'[r].cache_key)
       /\ (\E r \in ReqIds : reqs[r].pc = "ocr")
             => cache' = cache /\ stats' = stats
       /\ \A r \in ReqIds :
             BackendFailed(r)
             => /\ ~Has(cache', reqs[r].cache_key)
                /\ reqs'[r].calls = reqs[r].calls + 1
                /\ running' = 0
       /\ (Written \/ stats'.sets # stats.sets)
             => \E r \in ReqIds :
                   /\ reqs[r].pc = "caching" /\ reqs'[r].pc = "done"
                   /\ reqs[r].text \in Values
                   /\ reqs[r].calls = 1
                   /\ Lookup(cache', reqs[r].cache_key).value = reqs[r].text
                   /\ stats'.sets = stats.sets + 1
       /\ \A i \in 1..Len(cache') : cache'[i].value \in Values
      ]_vars

\* the backend failed for an item of a batch and for a single request with
\* the same content: both missed, nothing was stored
C11_Witness ==
    /\ Enabled
    /\ reqs[1].pc = "item_failed" /\ reqs[1].calls = 1
    /\ reqs[2].pc = "failed" /\ reqs[2].calls = 1
    /\ reqs[1].cache_key = reqs[2].cache_key
    /\ cache = <<>> /\ stats.sets = 0 /\ stats.misses = 2

\* the request has missed and has not yet made its set
InFlight(r) == reqs[r].pc \in {"ocr", "caching"}

\* request r is about to look up the key of the content request r2 missed
SameBytesWaiting(r, r2) ==
    /\ r # r2
    /\ InFlight(r2)
    /\ reqs[r].pc = "reading"
    /\ validate_after_read(reqs[r].upload.bytes).ok
    /\ validate_after_read(reqs[r].upload.bytes).content
         = reqs[r2].file_content

Inside(t) == thr[t].pc \notin {"idle", "lock"}

\* thread t is at the first statement of a method body: it has the lock and
\* is about to look at the store
Entering(t) == thr[t].pc \in Ops

NoDuplicateKeys == \A i \in 1..Len(cache) : \A j \in 1..Len(cache) :
                      cache[i].key = cache[j].key => i = j

\* C13 (atomic, linearizable operations): the method bodies exclude each
\* other; whenever the lock is free or a caller has just taken it, the store,
\* its order and the counters are those a sequential execution of the
\* completed calls leaves, so no partly applied call is seen (no store over
\* its capacity, no entry short of the most recently used end); every call
\* returns what it returns in that sequential execution.
C13_Linearizable ==
    /\ Cardinality({t \in Threads : Inside(t)}) <= 1
    /\ \A t \in Threads : Inside(t) => lock = t
    /\ (lock = 0 \/ \E t \in Threads : Entering(t))
          => /\ cache = lin.cache
             /\ stats = lin.stats
             /\ NoDuplicateKeys
             /\ (Capacity >= 1 => Len(cache) <= Capacity)
    /\ \A t \in Threads :
          thr[t].pc = "idle" => thr[t].result = thr[t].expect

\* a set has written its entry in place and not yet moved it to the end
\* while the other thread waits for the lock
C13_Witness ==
    /\ thr[1].pc = "set78" /\ lock = 1
    /\ thr[2].pc = "lock"
    /\ Len(cache) = 2 /\ cache[1].key = thr[1].key
    /\ cache # lin.cache

\* the sweep task is in its loop
TaskAlive == task \in {"pending", "sleeping"}

\* shutdown has called task.cancel()
CancelCalled == life \in {"awaiting", "stopped", "crashed"}

\* C14 (shutdown cancels the sweep): the task sleeps and sweeps in turn for
\* as long as it is not cancelled; task.cancel() on the task in its loop
\* interrupts the sleep: the task makes no cleanup_expired call afterwards,
\* it ends cancelled, and lifespan's shutdown returns.
C14_ShutdownCancelsSweep ==
    /\ [][/\ CancelCalled
             => ~Call("cleanup_expired") /\ ~Call("cleanup_raised")
          /\ (Call("cancel") /\ TaskAlive) => task' = "cancelling"
          /\ task = "cancelling" => task' \in {"cancelling", "cancelled"}
          /\ Call("cleanup_expired") => task = "sleeping" /\ task' = "sleeping"
          /\ life' = "stopped" => task' = "cancelled"
         ]_vars
    /\ (task = "cancelling") ~> (task = "cancelled" /\ life = "stopped")

\* shutdown has returned after cancelling a task that had swept an entry away
C14_Witness ==
    /\ life = "stopped" /\ task = "cancelled"
    /\ last.op = "shutdown"
    /\ stats.sets = 1 /\ cache = <<>>

\* C15 (the sweep survives its own failure): a cleanup_expired call of the
\* task that fails leaves the task in its loop, so that later sweeps are
\* made, and shutdown ends normally.
C15_SweepSurvivesFailure ==
    /\ last.op = "cleanup_raised" => TaskAlive
    /\ task # "failed"
    /\ life # "crashed"

\* C16 (the sweep reclaims unqueried entries): while the task is in its loop
\* an entry whose expiry has passed is eventually removed, whether or not
\* any other call touches the store.
C16_SweepReclaims ==
    \A k \in Keys :
       (TaskAlive /\ Has(cache, k) /\ now > Lookup(cache, k).expires_at)
       ~> (\/ ~TaskAlive
           \/ ~Has(cache, k)
           \/ ~(now > Lookup(cache, k).expires_at))

\* the task has swept an expired entry that no call had touched since its
\* set, and is asleep again
C16_Witness ==
    /\ task = "sleeping" /\ life = "serving"
    /\ last.op = "cleanup_expired" /\ last.count = 1
    /\ stats.sets = 1 /\ stats.hits = 0 /\ stats.misses = 0
    /\ cache = <<>>

\* C17 as claimed (hit rate): after H hits and M misses with no reset in
\* between, the hit rate get_stats reports equals H / (H + M), and 0 when
\* H + M = 0.  (report.hit_rate is in hundredths.)
C17_HitRateIsFraction ==
    last.op = "get_stats"
    => IF tally.hit + tally.missed = 0
       THEN report.hit_rate = 0
       ELSE report.hit_rate * (tally.hit + tally.missed) = 100 * tally.hit

\* C17 as amended: the hit rate reported is the percentage
\* 100 * H / (H + M) to two decimals (the hundredth nearest to it), and 0
\* when H + M = 0; the hits and misses reported are H and M.
C17_HitRateIsPercentage ==
    last.op = "get_stats"
    => LET H == tally.hit
           M == tally.missed
       IN /\ report.hits = H /\ report.misses = M
          /\ H + M = 0 => report.hit_rate = 0
          /\ H + M > 0
             => LET off == (H + M) * report.hit_rate - 100 * 100 * H
                IN 2 * off <= H + M /\ 0 - 2 * off <= H + M

\* get_stats after two hits and a miss reports 66.67
C17_Witness ==
    /\ last.op = "get_stats"
    /\ tally.hit = 2 /\ tally.missed = 1
    /\ report.hit_rate = 6667

\* the entries the step removes other than by overwriting
Removed == Len(cache) - Cardinality(KeySet(cache) \cap KeySet(cache'))

\* C18 (eviction counter): with no reset in between, the eviction counter is
\* the number of entries sets have evicted; a set raises it by one exactly
\* when it removes an entry, which it does only to make room for a new key;
\* get, size, cleanup_expired, delete and clear leave it, also when they
\* remove entries.
C18_EvictionCounter ==
    [][/\ stats'.evictions = tally'.evicted
       /\ Write
          => /\ stats'.evictions = stats.evictions + Removed
             /\ Removed \in {0, 1}
             /\ Removed = 1
                => /\ ~Has(cache, last'.key)
                   /\ Len(cache) >= Capacity
       /\ (~Write /\ ~Call("reset_stats"))
          => stats'.evictions = stats.evictions
      ]_vars

\* after an eviction a sweep has removed an entry and left the counter at 1
C18_Witness ==
    /\ last.op = "cleanup_expired" /\ last.count = 1
    /\ stats.evictions = 1 /\ tally.evicted = 1

\* C19 (monotone counters): no step of a call other than reset_stats lowers
\* hits, misses, evictions or sets, and every set made with caching enabled,
\* insert or overwrite, raises sets by exactly one.
C19_MonotoneCounters ==
    [][/\ ~Call("reset_stats")
          => \A f \in DOMAIN stats : stats'[f] >= stats[f]
       /\ Write => stats'.sets = stats.sets + 1
       /\ stats'.sets = tally'.written
      ]_vars

\* an overwrite has been counted as a set, the hit before it still counted
C19_Witness ==
    /\ Enabled
    /\ last.op = "set" /\ last.had
    /\ stats.sets = 1 /\ stats.hits = 1

\* C20 (entry timestamps): every stored entry has expires_at >= created_at,
\* whatever ttl a caller passes to set and however the clock advances while
\* set runs.
C20_ExpiryNotBeforeCreation ==
    \A i \in 1..Len(cache) : cache[i].expires_at >= cache[i].created_at

\* C21 (reset_stats): reset_stats sets hits, misses, evictions and sets to
\* zero and leaves the entries of the store, their values, expiries and
\* order as they were.
C21_ResetStats ==
    [][Call("reset_stats")
       => /\ stats' = InitStats
          /\ cache' = cache
          /\ now' = now]_vars

\* a reset with two entries in the store: the set of the second one was
\* counted after an earlier reset, and the counters are back at zero
C21_Witness ==
    /\ last.op = "reset_stats"
    /\ Len(cache) = 2
    /\ stats = InitStats /\ tally = NoTally

\* C22 (size): size() returns the number of entries that are not expired
\* during the call, which is the number left in the store; it removes
\* expired entries and nothing else: no live entry, no counter, and the
\* remaining entries keep their order.  (The scan reads the clock once per
\* entry: an entry expired when the call starts goes, one still live when it
\* ends stays.)
C22_SizeCountsLive ==
    [][Call("size")
       => /\ last'.count = Len(cache')
          /\ \A i \in Stale(cache, now) : ~Has(cache', cache[i].key)
          /\ \A i \in Live(cache, now') : Has(cache', cache[i].key)
          /\ cache' = Kept(cache, KeySet(cache'))
          /\ (Stale(cache, now) \cup Live(cache, now') = 1..Len(cache))
             => /\ last'.count = Cardinality(Live(cache, now))
                /\ \A i \in 1..Len(cache') : ~(now' > cache'[i].expires_at)
          /\ stats' = stats]_vars

\* size has removed one expired entry and returned 1 for the live one left
C22_Witness ==
    /\ last.op = "size" /\ last.count = 1
    /\ Len(cache) = 1
    /\ ~(now > cache[1].expires_at)
    /\ last.len = 2

\* C23 (delete): delete(k) removes the entry of k when it is present and
\* does nothing when it is absent; it changes no counter and leaves every
\* other entry and the order as they were; it does so with caching enabled
\* and disabled (it does not read the flag).
C23_Delete ==
    [][Call("delete")
       => /\ ~Has(cache', last'.key)
          /\ cache' = Others(cache, last'.key)
          /\ ~Has(cache, last'.key) => cache' = cache
          /\ stats' = stats
          /\ now' = now]_vars

\* a delete has removed the entry of its key and left the other one
C23_Witness ==
    /\ last.op = "delete" /\ last.had
    /\ Len(cache) = 1 /\ cache[1].key # last.key

\* C24 (oldest-entry age): the age get_stats reports is now - created_at of
\* the oldest live entry, the entry not expired with the smallest created_at,
\* after any sequence of set and get calls, and it is absent only when the
\* store has no entry.
C24_OldestLiveAge ==
    last.op = "get_stats"
    => /\ report.oldest_entry_age_seconds = <<>> => cache = <<>>
       /\ \A i \in Live(cache, now) :
             (\A j \in Live(cache, now) :
                 cache[i].created_at <= cache[j].created_at)
             => report.oldest_entry_age_seconds
                  = <<now - cache[i].created_at>>

\* C27 (capacity 0): with MAX_CACHE_SIZE = 0 and caching enabled the store
\* holds at most 0 entries after every set: it stays empty.
C27_ZeroCapacityStaysEmpty ==
    (Enabled /\ Capacity = 0) => Len(cache) <= 0

\* C28 (request accounting): with caching enabled and no reset in between,
\* hits + misses is the number of completed get calls: a get that returns a
\* value raises hits by one and leaves misses, a get of an absent or expired
\* key returns None, raises misses by one and leaves hits; no call other
\* than get (and reset_stats) changes hits or misses.
C28_RequestAccounting ==
    [][/\ stats'.hits = tally'.hit
       /\ stats'.misses = tally'.missed
       /\ (Call("get") /\ Enabled)
          => /\ stats'.hits + stats'.misses = stats.hits + stats.misses + 1
             /\ last'.result # None
                <=> /\ Has(cache, last'.key)
                    /\ ~(now > Lookup(cache, last'.key).expires_at)
             /\ last'.result # None
                => stats'.hits = stats.hits + 1 /\ stats'.misses = stats.misses
             /\ last'.result = None
                => stats'.misses = stats.misses + 1 /\ stats'.hits = stats.hits
       /\ (~Call("get") /\ ~Call("reset_stats"))
          => stats'.hits = stats.hits /\ stats'.misses = stats.misses
      ]_vars

\* a get has found its key expired after an earlier get had hit: one hit
\* and one miss counted for the two gets
C28_Witness ==
    /\ Enabled
    /\ last.op = "get" /\ last.had /\ last.result = None
    /\ stats.hits = 1 /\ stats.misses = 1
    /\ tally.hit = 1 /\ tally.missed = 1

\* the coroutine that runs is inside a store call
InStoreCall ==
    \/ running = SweepTask
    \/ running \in ReqIds /\ reqs[IF running \in ReqIds THEN running ELSE 1].pc
                                \in {"get", "set"}

\* C25 (the lock is not held across a suspension or the backend call): the
\* lock is taken only inside a store call of the coroutine that runs, and
\* every store call has released it when it returns; so it is free while a
\* handler is suspended at its await or inside the backend call; the backend
\* call of a request comes after its get has returned and released the lock
\* and before its set takes it.
C25_LockNotHeldAcross ==
    /\ [](/\ lock # 0 => InStoreCall /\ lock = Loop
          /\ ~InStoreCall => thr[Loop].pc = "idle"
          /\ Returned => lock = 0
          /\ \A r \in ReqIds :
                reqs[r].pc \in {"ocr", "caching"} => lock = 0 /\ running = r)
    /\ [][/\ (thr[Loop].pc = "unlock" /\ thr'[Loop].pc = "idle") => lock' = 0
          /\ \A r \in ReqIds :
                /\ (reqs[r].pc # "ocr" /\ reqs'[r].pc = "ocr")
                   => reqs[r].pc = "get" /\ Returned /\ lock = 0
                /\ reqs[r].pc = "ocr"
                   => /\ lock' = 0
                      /\ reqs'[r].pc \in {"ocr", "caching", "failed",
                                          "item_failed"}
                /\ (lock = 0 /\ lock' # 0 /\ reqs[r].pc = "set")
                   => reqs[r].calls = 1
         ]_vars

\* a handler that missed and called the backend is inside its set, holding
\* the lock, while another handler is suspended at its await
C25_Witness ==
    /\ Enabled
    /\ reqs[1].pc = "set" /\ reqs[1].calls = 1
    /\ lock = Loop /\ thr[Loop].pc = "set79"
    /\ stats.misses = 1
    /\ reqs[2].pc = "reading"

\* C26 (no deadlock, no failure under contention): a caller that finds the
\* lock taken waits, with its call as it was, and is not failed; while a
\* call is under way some thread can take a step; every started get, set,
\* delete, clear, size or cleanup_expired call gets the lock, completes and
\* releases it.
C26_NoDeadlock ==
    /\ []((\E t \in Threads : thr[t].pc # "idle")
            => ENABLED (\E t \in Threads : ThreadStep(t)))
    /\ [][\A t \in Threads :
             (thr[t].pc = "lock" /\ lock # 0) => thr'[t] = thr[t]]_vars
    /\ \A t \in Threads :
          (thr[t].pc = "lock") ~> (thr[t].pc = "idle" /\ lock # t)

\* thread 2, which has completed a call, waits for the lock while thread 1
\* is inside cleanup_expired with a deletion still to make
C26_Witness ==
    /\ thr[2].pc = "lock" /\ thr[2].calls = 1
    /\ lock = 1 /\ thr[1].pc = "del_expired" /\ thr[1].todo # <<>>

====
